---- MODULE Spec2Model ----
(***************************************************************************)
(* libnih file watching (nih/file.c): the inotify watch registry           *)
(* (nih_file_add_watch, nih_file_remove_watch, nih_file_reader), the       *)
(* directory walker (nih_dir_walk) and the directory tree watcher          *)
(* (nih_dir_add_watch, nih_dir_add_file_watch, nih_dir_watcher), together  *)
(* with the part of the kernel they talk to: a filesystem of inodes, the   *)
(* inotify watch table and the inotify event queue.                        *)
(***************************************************************************)
EXTENDS Integers, Sequences, FiniteSets, TLC

(***************************************************************************)
(* Bounds of the model.                                                    *)
(***************************************************************************)
MaxInodes == 3
MaxHandles == 5
MaxTrees == 1
MaxWd == 3
MaxQueue == 3
MaxOps == 2
MaxReg == 3

Names == {"a", "b"}
Top == 0
Inodes == 1 .. MaxInodes
Handles == 1 .. MaxHandles
Trees == 1 .. MaxTrees
Wds == 1 .. MaxWd

(***************************************************************************)
(* File modes, as sets of the bit positions that are set: st_mode & types  *)
(* is the intersection.  S_IFDIR 0040000, S_IFREG 0100000, S_IFSOCK        *)
(* 0140000, S_IFBLK 0060000, S_IFCHR 0020000, S_IFIFO 0010000, S_IFMT      *)
(* 0170000; S_IRUSR 0400 is the permission opendir needs.                  *)
(***************************************************************************)
S_IFIFO == {12}
S_IFCHR == {13}
S_IFDIR == {14}
S_IFBLK == {13, 14}
S_IFREG == {15}
S_IFSOCK == {14, 15}
S_IFMT == {12, 13, 14, 15}
S_IRUSR == {8}
S_ISDIR(mode) == (mode \cap S_IFMT) = S_IFDIR

\* The inotify event bits nih_dir_watcher tests, and the DIR_EVENTS mask.
IN_MOVE == {"IN_MOVED_FROM", "IN_MOVED_TO"}
DIR_EVENTS == {"IN_CREATE", "IN_DELETE", "IN_MODIFY", "IN_MOVE_SELF"} \cup IN_MOVE

NULL == <<>>

VARIABLES
    fs,            \* the filesystem: inode -> [parent, name, mode]
    filt,          \* the names the caller's filter rejects ({}: no filter)
    inotify_fd,    \* file.c inotify_fd: -1, or the channel's descriptor
    file_watches,  \* file.c file_watches: the list of registered handles
    watch,         \* handle -> NihFileWatch [alloc, path, wd, parent, dtor]
    dirw,          \* tree -> NihDirWatch [alloc, path, subdirs, filter]
    nalloc,        \* handles allocated so far (the next handle is nalloc+1)
    ntrees,        \* tree watches created so far
    kw,            \* the kernel's inotify watch table: wd -> inode (-1: none)
    nextWd,        \* the next watch descriptor the kernel hands out
    queue,         \* the inotify event queue: events not yet read
    nops,          \* filesystem operations performed so far
    last           \* the last step: operation, arguments, callbacks, removals

vars == <<fs, filt, inotify_fd, file_watches, watch, dirw, nalloc, ntrees, kw, nextWd, queue, nops, last>>

NoInode == [parent |-> -1, name |-> "", mode |-> {}]
NoWatch == [alloc |-> FALSE, path |-> NULL, wd |-> -1, parent |-> 0, dtor |-> FALSE]
NoDir == [alloc |-> FALSE, path |-> NULL, subdirs |-> FALSE, filter |-> {}]
ChannelFd == 3

(***************************************************************************)
(* Helpers on sets and sequences.                                          *)
(***************************************************************************)
Min(S) == CHOOSE x \in S : \A y \in S : x <= y
Max(S) == CHOOSE x \in S : \A y \in S : x >= y

RECURSIVE SortedSeq(_)
SortedSeq(S) == IF S = {} THEN <<>> ELSE <<Min(S)>> \o SortedSeq(S \ {Min(S)})

Range(s) == {s[k] : k \in 1 .. Len(s)}

IsPrefix(p, q) == Len(p) <= Len(q) /\ SubSeq(q, 1, Len(p)) = p

(***************************************************************************)
(* The filesystem.  A path is the sequence of names from the top           *)
(* directory.                                                              *)
(***************************************************************************)
Exists(f, i) == i = Top \/ (i \in Inodes /\ f[i].parent # -1)

ModeOf(f, i) == IF i = Top THEN S_IFDIR \cup S_IRUSR ELSE f[i].mode

Entries(f, d) == {i \in Inodes : f[i].parent = d}

RECURSIVE lookup(_, _, _)
lookup(f, d, path) ==
    IF path = <<>> THEN d
    ELSE LET c == {i \in Entries(f, d) : f[i].name = Head(path)}
         IN  IF c = {} THEN -1 ELSE lookup(f, CHOOSE i \in c : TRUE, Tail(path))

Resolve(f, path) == lookup(f, Top, path)

RECURSIVE PathOf(_, _)
PathOf(f, i) == IF i = Top THEN <<>> ELSE Append(PathOf(f, f[i].parent), f[i].name)

RECURSIVE Below(_, _, _)
Below(f, i, d) == i # Top /\ Exists(f, i) /\ (f[i].parent = d \/ Below(f, f[i].parent, d))

\* stat(): the mode of the inode the path names, {} when stat fails.
stat(f, path) == IF Resolve(f, path) = -1 THEN {} ELSE ModeOf(f, Resolve(f, path))

\* opendir() succeeds on a readable directory.
opendir(f, path) == S_ISDIR(stat(f, path)) /\ S_IRUSR \subseteq stat(f, path)

\* readdir(): the self and parent entries, then the entries of the directory.
readdir(f, path) ==
    <<".", "..">> \o [k \in 1 .. Cardinality(Entries(f, Resolve(f, path))) |->
                        f[SortedSeq(Entries(f, Resolve(f, path)))[k]].name]

\* The caller's filter: rejects a path by its last component.
Filter(flt, path) == path # <<>> /\ path[Len(path)] \in flt

(***************************************************************************)
(* nih_dir_walk.  The result is the value returned and the paths the       *)
(* visitor was called with, in call order; vfail is the set of paths on    *)
(* which the visitor returns a negative value.  The visitor does not       *)
(* change the filesystem, so the calls can be collected and applied after. *)
(***************************************************************************)
RECURSIVE nih_dir_walk(_, _, _, _, _)
RECURSIVE walk_entries(_, _, _, _, _, _)

\* The filter never rejects an entry.
skip_entry_never(flt, subpath) == FALSE

\* An entry the filter rejects is passed over: neither visited nor entered.
skip_entry(flt, subpath) == Filter(flt, subpath)

\* A walk that enters no directory it finds.
descend_never(statbuf) == FALSE

\* The walk enters what stat says is a directory, whatever types asks for.
descend(statbuf) == S_ISDIR(statbuf)

walk_entries(f, path, ents, types, flt, vfail) ==
    IF ents = <<>> THEN [ret |-> 0, visited |-> <<>>]
    ELSE LET d_name == Head(ents)
             subpath == Append(path, d_name)
             rest == walk_entries(f, path, Tail(ents), types, flt, vfail)
             statbuf == stat(f, subpath)
             called == (statbuf \cap types) # {}
             here == IF called THEN <<subpath>> ELSE <<>>
             vret == IF called /\ subpath \in vfail THEN -1 ELSE 0
             sub == IF descend(statbuf)
                    THEN nih_dir_walk(f, subpath, types, flt, vfail)
                    ELSE [ret |-> 0, visited |-> <<>>]
         IN  IF d_name \in {".", ".."} THEN rest
             ELSE IF skip_entry(flt, subpath) THEN rest
             ELSE IF statbuf = {} THEN rest
             ELSE IF vret < 0 THEN [ret |-> vret, visited |-> here]
             ELSE IF sub.ret < 0 THEN [ret |-> sub.ret, visited |-> here \o sub.visited]
             ELSE [ret |-> rest.ret, visited |-> here \o sub.visited \o rest.visited]

nih_dir_walk(f, path, types, flt, vfail) ==
    IF ~opendir(f, path) THEN [ret |-> -1, visited |-> <<>>]
    ELSE walk_entries(f, path, readdir(f, path), types, flt, vfail)

(***************************************************************************)
(* The machine: the program's registry and tree watches and the kernel's   *)
(* inotify state, as one record the operations below transform.  calls are *)
(* the handler invocations and rm the inotify_rm_watch calls of the        *)
(* operation in progress, disp the handles whose watcher the reader        *)
(* called, inits the inotify_init calls, fails the inotify_add_watch calls *)
(* that failed and refused their paths; ret is the value the last call returned (0 for a NULL      *)
(* pointer).                                                               *)
(***************************************************************************)
Cur ==
    [fd |-> inotify_fd, list |-> file_watches, watch |-> watch, dirw |-> dirw,
     nalloc |-> nalloc, ntrees |-> ntrees, kw |-> kw, nextWd |-> nextWd,
     queue |-> queue, calls |-> <<>>, rm |-> <<>>, disp |-> <<>>, inits |-> 0, fails |-> 0, refused |-> <<>>, ret |-> 0]

Event(wd, mask, name) == [wd |-> wd, mask |-> mask, name |-> name]

Call(fn, who, path) == [fn |-> fn, who |-> who, path |-> path]

\* The watch descriptor of the kernel watch on inode i, -1 when there is none.
WdOf(k, i) == IF \E w \in DOMAIN k : k[w] = i THEN CHOOSE w \in DOMAIN k : k[w] = i ELSE -1

\* The kernel queues an event for inode i when i is watched.
Emit(m, i, mask, name) ==
    IF WdOf(m.kw, i) = -1 THEN m
    ELSE [m EXCEPT !.queue = Append(@, Event(WdOf(m.kw, i), mask, name))]

\* inotify_init(): ok says whether the kernel grants the descriptor.
inotify_init(ok) == IF ok THEN ChannelFd ELSE -1

\* inotify_add_watch(): fails on a missing path, on an inode the caller may
\* not read (EACCES) and on the inodes of bad (the kernel refusing: ENOSPC);
\* an inode already watched keeps its wd.
inotify_add_watch(m, f, path, bad) ==
    LET i == Resolve(f, path)
    IN  IF i = -1 \/ i \in bad \/ ~(S_IRUSR \subseteq ModeOf(f, i))
        THEN [m EXCEPT !.ret = -1, !.fails = @ + 1, !.refused = Append(@, path)]
        ELSE IF WdOf(m.kw, i) # -1 THEN [m EXCEPT !.ret = WdOf(m.kw, i)]
        ELSE [m EXCEPT !.kw = (m.nextWd :> i) @@ @, !.nextWd = @ + 1, !.ret = m.nextWd]

\* inotify_rm_watch(): removes the kernel watch and queues IN_IGNORED for it;
\* EINVAL, and nothing else, when wd names no watch.
inotify_rm_watch(m, wd) ==
    LET m1 == [m EXCEPT !.rm = Append(@, wd)]
    IN  IF wd \in DOMAIN m.kw /\ m.kw[wd] # -1
        THEN [m1 EXCEPT !.kw[wd] = -1, !.queue = Append(@, Event(wd, {"IN_IGNORED"}, ""))]
        ELSE m1

\* nih_list_add(file_watches, entry): the entry goes to the end of the list.
nih_list_add(list, h) == Append(list, h)

\* nih_list_remove(entry): unlinks the entry (no effect when it is in no list).
nih_list_remove(list, h) == SelectSeq(list, LAMBDA x : x # h)

\* An initialisation that asks for a descriptor whether or not it has one.
nih_file_init_always(m, ok) == [m EXCEPT !.fd = inotify_init(ok), !.inits = @ + 1]

nih_file_init(m, ok) ==
    IF m.fd = -1
    THEN [m EXCEPT !.fd = inotify_init(ok), !.inits = @ + 1]
    ELSE m

\* nih_file_remove_watch without its test of the descriptor.
nih_file_remove_watch_unguarded(m, h) ==
    LET m1 == inotify_rm_watch(m, m.watch[h].wd)
    IN  [m1 EXCEPT !.watch[h].wd = -1, !.list = nih_list_remove(@, h)]

\* nih_file_remove_watch without its nih_list_remove.
nih_file_remove_watch_listed(m, h) ==
    IF m.watch[h].wd < 0 THEN m
    ELSE [inotify_rm_watch(m, m.watch[h].wd) EXCEPT !.watch[h].wd = -1]

nih_file_remove_watch(m, h) ==
    IF m.watch[h].wd < 0 THEN m
    ELSE LET m1 == inotify_rm_watch(m, m.watch[h].wd)
         IN  [m1 EXCEPT !.watch[h].wd = -1, !.list = nih_list_remove(@, h)]

\* nih_free() of a file watch: its destructor runs, then the block is gone.
nih_free_watch(m, h) ==
    LET m1 == IF m.watch[h].dtor THEN nih_file_remove_watch(m, h) ELSE m
    IN  [m1 EXCEPT !.watch[h] = NoWatch]

\* A registration that takes any descriptor for a good one.
add_failed_never(wd) == FALSE

\* The test of what inotify_add_watch returned.
add_failed(wd) == wd < 0

\* nih_file_add_watch: the watch is allocated with its destructor set before
\* inotify_add_watch is called, so a refusal frees it through the destructor.
nih_file_add_watch(m, f, parent, path, ok, bad) ==
    LET m1 == nih_file_init(m, ok)
        m2 == inotify_add_watch(m1, f, path, bad)
        h == m2.nalloc + 1
        m3 == [m2 EXCEPT !.watch = (h :> [alloc |-> TRUE, path |-> NULL, wd |-> m2.ret,
                                           parent |-> parent, dtor |-> TRUE]) @@ @]
        freed == nih_free_watch(m3, h)
    IN  IF m1.fd < 0 THEN [m1 EXCEPT !.ret = 0]
        ELSE IF add_failed(m3.watch[h].wd)
             THEN [freed EXCEPT !.watch = [x \in DOMAIN m.watch |-> freed.watch[x]], !.ret = 0]
        ELSE [m3 EXCEPT !.watch[h].path = path,
                        !.nalloc = h,
                        !.list = nih_list_add(@, h),
                        !.ret = h]

\* nih_list_free(entry): unlinks the entry and frees it.
nih_list_free(m, h) ==
    nih_free_watch([m EXCEPT !.list = nih_list_remove(@, h)], h)

Children(m, t) == {h \in DOMAIN m.watch : m.watch[h].alloc /\ m.watch[h].parent = t}

RECURSIVE free_children(_, _)
free_children(m, hs) ==
    IF hs = {} THEN m ELSE free_children(nih_free_watch(m, Min(hs)), hs \ {Min(hs)})

\* nih_free() of a directory watch: every child block is freed with it.
nih_free_dir(m, t) ==
    [free_children(m, Children(m, t)) EXCEPT !.dirw[t] = NoDir]

nih_dir_add_file_watch(m, f, t, path, bad) ==
    [nih_file_add_watch(m, f, t, path, TRUE, bad) EXCEPT !.ret = 0]

\* The visitor calls of one walk, applied in call order: the visitor returns 0
\* whatever nih_file_add_watch returned, so the walk goes on.
RECURSIVE visit_all(_, _, _, _, _)
visit_all(m, f, t, paths, bad) ==
    IF paths = <<>> THEN m
    ELSE visit_all(nih_dir_add_file_watch(m, f, t, Head(paths), bad), f, t, Tail(paths), bad)

nih_dir_add_watch(m, f, path, subdirs, flt, ok, bad) ==
    LET statbuf == stat(f, path)
        t == m.ntrees + 1
        m1 == [m EXCEPT !.dirw = (t :> [alloc |-> TRUE, path |-> path,
                                         subdirs |-> subdirs, filter |-> flt]) @@ @,
                        !.ntrees = t]
        m2 == nih_file_add_watch(m1, f, t, path, ok, bad)
        w == nih_dir_walk(f, path, S_IFDIR, flt, {})
        m3 == visit_all(m2, f, t, w.visited, bad)
    IN  IF statbuf = {} THEN [m EXCEPT !.ret = 0]
        ELSE IF ~S_ISDIR(statbuf) THEN [m EXCEPT !.ret = 0]
        ELSE IF m2.ret = 0 THEN [nih_free_dir(m2, t) EXCEPT !.ntrees = m.ntrees, !.ret = 0]
        ELSE IF subdirs /\ w.ret < 0
             THEN [nih_free_dir(m3, t) EXCEPT !.ntrees = m.ntrees, !.ret = 0]
        ELSE IF subdirs THEN [m3 EXCEPT !.ret = t]
        ELSE [m2 EXCEPT !.ret = t]

\* A watcher that takes no watch for the top-level one.
top_level_never(dir_watch, file_watch) == FALSE

\* The event is for the directory the tree watch was created on.
top_level(dir_watch, file_watch) == file_watch.path = dir_watch.path

\* A watcher that does not look for another holder of the descriptor.
watch_found_never(m, h) == FALSE

\* Another entry of the list holds the descriptor of h.
watch_found(m, h) == \E fw \in Range(m.list) : fw # h /\ m.watch[fw].wd = m.watch[h].wd

\* A watcher that does not ask the filter.
filter_out_never(dir_watch, path) == FALSE

\* The tree watch's filter rejects the path.
filter_out(dir_watch, path) == Filter(dir_watch.filter, path)

\* A watcher that adds watches whether or not sub-directories are wanted.
watch_new_dir_always(dir_watch, statbuf) == S_ISDIR(statbuf)

\* The new path is a directory of a tree watched with its sub-directories.
watch_new_dir(dir_watch, statbuf) == dir_watch.subdirs /\ S_ISDIR(statbuf)

nih_dir_watcher(m, f, t, h, events, name, bad) ==
    LET dir_watch == m.dirw[t]
        file_watch == m.watch[h]
        path == Append(file_watch.path, name)
        created == [m EXCEPT !.calls = Append(@, Call("create", t, path))]
        w == nih_dir_walk(f, path, S_IFDIR, dir_watch.filter, {})
    IN  IF (events \cap {"IN_IGNORED", "IN_MOVE_SELF"}) # {}
        THEN IF top_level(dir_watch, file_watch)
             THEN nih_free_dir([m EXCEPT !.calls = Append(@, Call("delete", t, NULL))], t)
             ELSE IF watch_found(m, h)
                  THEN nih_list_free([m EXCEPT !.watch[h].dtor = FALSE], h)
                  ELSE nih_free_watch(nih_file_remove_watch(m, h), h)
        ELSE IF filter_out(dir_watch, path) THEN m
        ELSE IF (events \cap {"IN_CREATE", "IN_MOVED_TO"}) # {}
             THEN IF watch_new_dir(dir_watch, stat(f, path))
                  THEN visit_all(nih_dir_add_file_watch(created, f, t, path, bad),
                                 f, t, w.visited, bad)
                  ELSE created
        ELSE IF "IN_MODIFY" \in events
             THEN [m EXCEPT !.calls = Append(@, Call("modify", t, path))]
        ELSE IF (events \cap {"IN_DELETE", "IN_MOVED_FROM"}) # {}
             THEN [m EXCEPT !.calls = Append(@, Call("delete", t, path))]
        ELSE m

\* The watcher bound to handle h: nih_dir_watcher for a tree's watches, the
\* caller's own function for a watch registered directly.
watcher(m, f, h, ev, bad) ==
    IF m.watch[h].parent # 0
    THEN nih_dir_watcher(m, f, m.watch[h].parent, h, ev.mask, ev.name, bad)
    ELSE [m EXCEPT !.calls = Append(@, Call("watcher", h, <<ev.name>>))]

\* The positions of the list whose watch holds descriptor wd.
matching(m, wd) == {k \in 1 .. Len(m.list) : m.watch[m.list[k]].wd = wd}

\* A reader that calls every watcher that matches: the loop without its break.
dispatch_every(m, wd) == [k \in 1 .. Cardinality(matching(m, wd)) |->
                            m.list[SortedSeq(matching(m, wd))[k]]]

\* A reader that walks the list from its tail.
dispatch_last(m, wd) ==
    IF matching(m, wd) = {} THEN <<>> ELSE <<m.list[Max(matching(m, wd))]>>

\* The NIH_LIST_FOREACH of nih_file_reader: the handles whose watcher is called
\* for an event on wd, which is the first match only.
dispatch_to(m, wd) ==
    IF matching(m, wd) = {} THEN <<>> ELSE <<m.list[Min(matching(m, wd))]>>

RECURSIVE call_watchers(_, _, _, _, _)
call_watchers(m, f, hs, ev, bad) ==
    IF hs = <<>> THEN m
    ELSE call_watchers(watcher([m EXCEPT !.disp = Append(@, Head(hs))], f, Head(hs), ev, bad),
                       f, Tail(hs), ev, bad)

\* nih_file_reader, for one complete event read from the channel.
nih_file_reader(m, f, ev, bad) == call_watchers(m, f, dispatch_to(m, ev.wd), ev, bad)

\* sizeof (struct inotify_event): wd, mask, cookie and len, four bytes each.
HeaderSize == 16

\* event->len: the bytes of name that follow the header, none for an event
\* without a name; the kernel pads a name to a multiple of the header's size.
event_len(ev) == IF ev.name = "" THEN 0 ELSE HeaderSize

\* The bytes one record takes in the channel.
RecordSize(ev) == HeaderSize + event_len(ev)

\* nih_io_read of sz bytes when len are buffered: the event, whose name lies
\* past the end of the buffer when the record is not all there.
nih_io_read(ev, len) == IF len >= RecordSize(ev) THEN ev ELSE [ev EXCEPT !.name = "~"]

\* A reader that does not wait for the name.
name_missing_never(len, sz) == FALSE

\* The second test of the loop: the header is there, the name is not.
name_missing(len, sz) == len < sz

\* nih_file_reader called with len bytes buffered, which are the first len
\* bytes of the queued records: the while loop.  ret is the number of bytes
\* it leaves in the buffer.
RECURSIVE reader_loop(_, _, _, _)
reader_loop(m, f, len, bad) ==
    IF ~(len > 0) THEN [m EXCEPT !.ret = len]
    ELSE IF len < HeaderSize THEN [m EXCEPT !.ret = len]
    ELSE LET sz == HeaderSize + event_len(Head(m.queue))
             event == nih_io_read(Head(m.queue), len)
         IN  IF name_missing(len, sz) THEN [m EXCEPT !.ret = len]
             ELSE reader_loop(nih_file_reader([m EXCEPT !.queue = Tail(@)], f, event, bad),
                              f, len - sz, bad)

(***************************************************************************)
(* The state machine.                                                      *)
(***************************************************************************)
Modes == {S_IFDIR \cup S_IRUSR, S_IFREG \cup S_IRUSR, S_IFSOCK \cup S_IRUSR}
InodeRecs == {NoInode} \cup [parent : {Top} \cup Inodes, name : Names, mode : Modes]
\* The inodes inotify_add_watch refuses in one operation: none, or one of those
\* the operation can reach from path.
BadSets(f, path) ==
    {{}} \cup {{i} : i \in {j \in Inodes : Resolve(f, path) # -1
                                   /\ (j = Resolve(f, path) \/ Below(f, j, Resolve(f, path)))}}
RootPaths == {<<n>> : n \in Names}
WatchPaths == {<<"a">>} \cup {<<"a", n>> : n \in Names}

\* A filesystem as mkdir, mknod and rename can have built it.
WellFormed(f) ==
    /\ \A i \in Inodes : f[i] # NoInode =>
         /\ f[i].parent # i
         /\ Exists(f, f[i].parent)
         /\ S_ISDIR(ModeOf(f, f[i].parent))
         /\ \A j \in Inodes \ {i} : ~(f[j].parent = f[i].parent /\ f[j].name = f[i].name)

InitFs ==
    {f \in [Inodes -> InodeRecs] :
       /\ WellFormed(f)
       /\ f[1] = [parent |-> Top, name |-> "a", mode |-> S_IFDIR \cup S_IRUSR]
       /\ \A i \in Inodes : f[i] # NoInode => f[i].parent < i
       /\ \A i \in Inodes : (f[i] = NoInode /\ i < MaxInodes) => f[i + 1] = NoInode}

\* The state of a process that has not used file.c yet.
Fresh ==
    /\ inotify_fd = -1
    /\ file_watches = <<>>
    /\ watch = [h \in Handles |-> NoWatch]
    /\ dirw = [t \in Trees |-> NoDir]
    /\ nalloc = 0
    /\ ntrees = 0
    /\ kw = [w \in Wds |-> -1]
    /\ nextWd = 1
    /\ queue = <<>>
    /\ nops = 0
    /\ last = [op |-> "init", arg |-> <<>>, calls |-> <<>>, rm |-> <<>>, disp |-> <<>>,
               inits |-> 0, fails |-> 0, refused |-> <<>>, ret |-> 0]

Init == fs \in InitFs /\ filt \in {{}, {"b"}} /\ Fresh

Fits(m) ==
    /\ m.nalloc <= MaxHandles
    /\ m.ntrees <= MaxTrees
    /\ m.nextWd <= MaxWd + 1
    /\ Len(m.queue) <= MaxQueue

Commit(result, op, arg) ==
    \E m \in {result} :
        /\ Fits(m)
        /\ inotify_fd' = m.fd
        /\ file_watches' = m.list
        /\ watch' = m.watch
        /\ dirw' = m.dirw
        /\ nalloc' = m.nalloc
        /\ ntrees' = m.ntrees
        /\ kw' = m.kw
        /\ nextWd' = m.nextWd
        /\ queue' = m.queue
        /\ last' = [op |-> op, arg |-> arg, calls |-> m.calls, rm |-> m.rm,
                    disp |-> m.disp, inits |-> m.inits, fails |-> m.fails,
                    refused |-> m.refused, ret |-> m.ret]

IsDirFlag(mode) == IF S_ISDIR(mode) THEN {"IN_ISDIR"} ELSE {}

NameFree(f, d, n) == \A j \in Inodes : ~(f[j].parent = d /\ f[j].name = n)

\* The filesystem changes under the program's eyes: once a watch has been
\* registered (changes before that are another initial filesystem), MaxOps times.
FsEnabled == nops < MaxOps /\ nalloc > 0

\* mkdir(), creat(), bind(): a new entry n of mode md in directory d.
FsCreate(d, n, md) ==
    /\ FsEnabled
    /\ Exists(fs, d) /\ S_ISDIR(ModeOf(fs, d))
    /\ NameFree(fs, d, n)
    /\ \E i \in Inodes : fs[i] = NoInode
    /\ LET i == Min({j \in Inodes : fs[j] = NoInode})
       IN  fs' = [fs EXCEPT ![i] = [parent |-> d, name |-> n, mode |-> md]]
    /\ Commit(Emit(Cur, d, {"IN_CREATE"} \cup IsDirFlag(md), n), "create", <<d, n>>)
    /\ nops' = nops + 1
    /\ UNCHANGED filt

\* write() to a regular file.
FsModify(i) ==
    /\ FsEnabled
    /\ fs[i] # NoInode /\ (fs[i].mode \cap S_IFMT) = S_IFREG
    /\ Commit(Emit(Emit(Cur, fs[i].parent, {"IN_MODIFY"}, fs[i].name), i, {"IN_MODIFY"}, ""),
              "modify", <<i>>)
    /\ nops' = nops + 1
    /\ UNCHANGED <<fs, filt>>

\* unlink(), rmdir(): the parent's IN_DELETE, then the inode's own watch goes.
FsRemove(i) ==
    /\ FsEnabled
    /\ fs[i] # NoInode /\ Entries(fs, i) = {}
    /\ fs' = [fs EXCEPT ![i] = NoInode]
    /\ LET m1 == Emit(Cur, fs[i].parent, {"IN_DELETE"} \cup IsDirFlag(fs[i].mode), fs[i].name)
           wd == WdOf(kw, i)
           m2 == IF wd = -1 THEN m1
                 ELSE [m1 EXCEPT !.kw[wd] = -1,
                                 !.queue = Append(@, Event(wd, {"IN_IGNORED"}, ""))]
       IN  Commit(m2, "remove", <<i>>)
    /\ nops' = nops + 1
    /\ UNCHANGED filt

\* rename() of inode i to the free name n of directory d.
FsRename(i, d, n) ==
    /\ FsEnabled
    /\ fs[i] # NoInode
    /\ Exists(fs, d) /\ S_ISDIR(ModeOf(fs, d))
    /\ d # i /\ ~Below(fs, d, i)
    /\ NameFree(fs, d, n)
    /\ fs' = [fs EXCEPT ![i].parent = d, ![i].name = n]
    /\ LET fl == IsDirFlag(fs[i].mode)
           m1 == Emit(Cur, fs[i].parent, {"IN_MOVED_FROM"} \cup fl, fs[i].name)
           m2 == Emit(m1, d, {"IN_MOVED_TO"} \cup fl, n)
           m3 == Emit(m2, i, {"IN_MOVE_SELF"}, "")
       IN  Commit(m3, "rename", <<i, d, n>>)
    /\ nops' = nops + 1
    /\ UNCHANGED filt

InitOk == IF inotify_fd = -1 THEN BOOLEAN ELSE {TRUE}

\* The caller registers a watch of its own.
FileAddWatch(path, ok, bad) ==
    /\ nalloc < MaxReg
    /\ Commit(nih_file_add_watch(Cur, fs, 0, path, ok, bad), "file_add_watch",
              [path |-> path])
    /\ UNCHANGED <<fs, filt, nops>>

\* The caller releases a watch it registered.
FileRemoveWatch(h) ==
    /\ watch[h].alloc /\ watch[h].parent = 0
    /\ Commit(nih_file_remove_watch(Cur, h), "file_remove_watch", [h |-> h])
    /\ UNCHANGED <<fs, filt, nops>>

\* The caller frees a watch it registered, or the block that owns it.
FileFree(h) ==
    /\ watch[h].alloc /\ watch[h].parent = 0
    /\ Commit(nih_free_watch(Cur, h), "file_free", [h |-> h])
    /\ UNCHANGED <<fs, filt, nops>>

DirAddWatch(path, subdirs, ok, bad) ==
    /\ ntrees < MaxTrees
    /\ Commit(nih_dir_add_watch(Cur, fs, path, subdirs, filt, ok, bad), "dir_add_watch",
              [path |-> path, subdirs |-> subdirs])
    /\ UNCHANGED <<fs, filt, nops>>

\* The caller frees a directory watch.
DirFree(t) ==
    /\ dirw[t].alloc
    /\ Commit(nih_free_dir(Cur, t), "dir_free", [t |-> t])
    /\ UNCHANGED <<fs, filt, nops>>

\* The registrations the kernel may refuse while the next event is handled: one
\* under the path the event names, when the event is one that adds watches.
ReaderBad ==
    IF queue # <<>> /\ (Head(queue).mask \cap {"IN_CREATE", "IN_MOVED_TO"}) # {}
    THEN UNION {BadSets(fs, Append(watch[h].path, Head(queue).name)) :
                  h \in {x \in Handles : watch[x].wd = Head(queue).wd}}  \cup {{}}
    ELSE {{}}

\* The channel is readable: the reader takes the next event.
Reader(bad) ==
    /\ queue # <<>>
    /\ Commit(nih_file_reader([Cur EXCEPT !.queue = Tail(@)], fs, Head(queue), bad),
              "reader", [ev |-> Head(queue)])
    /\ UNCHANGED <<fs, filt, nops>>

\* The bytes the queued records take in the channel.
RECURSIVE Bytes(_)
Bytes(q) == IF q = <<>> THEN 0 ELSE RecordSize(Head(q)) + Bytes(Tail(q))

\* The numbers of buffered bytes that end at a record's boundary, inside a
\* header, at the end of a header or inside a name.
PassLens(q) ==
    {Bytes(SubSeq(q, 1, k)) + d : k \in 0 .. Len(q), d \in {0, 1, HeaderSize, HeaderSize + 1}}
        \cap (1 .. Bytes(q))

\* The channel is readable: the reader is called with the len bytes that have
\* been read into the buffer so far, which may end inside a record.
ReaderPass(len) ==
    /\ queue # <<>>
    /\ len \in PassLens(queue)
    /\ Commit(reader_loop(Cur, fs, len, {}), "reader_pass", [len |-> len])
    /\ UNCHANGED <<fs, filt, nops>>

FsStep ==
    \/ \E d \in {Top} \cup Inodes, n \in Names, md \in Modes : FsCreate(d, n, md)
    \/ \E i \in Inodes : FsModify(i)
    \/ \E i \in Inodes : FsRemove(i)
    \/ \E i \in Inodes, d \in {Top} \cup Inodes, n \in Names : FsRename(i, d, n)

Next ==
    \/ FsStep
    \/ \E path \in RootPaths, subdirs \in BOOLEAN, ok \in InitOk :
          \E bad \in BadSets(fs, path) : DirAddWatch(path, subdirs, ok, bad)
    \/ \E t \in Trees : DirFree(t)
    \/ \E bad \in ReaderBad : Reader(bad)

Spec == Init /\ [][Next]_vars

\* The tree watcher while the kernel refuses no registration.
NextSteady ==
    \/ FsStep
    \/ \E path \in RootPaths, subdirs \in BOOLEAN : DirAddWatch(path, subdirs, TRUE, {})
    \/ \E t \in Trees : DirFree(t)
    \/ Reader({})

SpecSteady == Init /\ [][NextSteady]_vars

\* The tree watcher with the reader called on the bytes of the channel, which
\* may hold several events.
NextPass ==
    \/ FsStep
    \/ \E path \in RootPaths : DirAddWatch(path, TRUE, TRUE, {})
    \/ \E len \in PassLens(queue) : ReaderPass(len)

SpecPass == Init /\ [][NextPass]_vars

\* The tree watcher with multi-event reads and the caller freeing the tree
\* watch.
NextTeardown ==
    \/ FsStep
    \/ \E path \in RootPaths : DirAddWatch(path, TRUE, TRUE, {})
    \/ \E t \in Trees : DirFree(t)
    \/ \E len \in PassLens(queue) : ReaderPass(len)

SpecTeardown == Init /\ [][NextTeardown]_vars

\* Construction of a tree watch over a filesystem in which some directories
\* below the root cannot be read.
InitUnreadable ==
    /\ \E f \in InitFs, U \in SUBSET (Inodes \ {1}) :
          /\ U # {}
          /\ \A i \in U : S_ISDIR(f[i].mode)
          /\ fs = [i \in Inodes |-> IF i \in U THEN [f[i] EXCEPT !.mode = S_IFDIR] ELSE f[i]]
    /\ filt \in {{}, {"b"}}
    /\ Fresh

NextUnreadable ==
    \/ \E path \in RootPaths, subdirs \in BOOLEAN, ok \in InitOk :
          \E bad \in BadSets(fs, path) : DirAddWatch(path, subdirs, ok, bad)
    \/ \E t \in Trees : DirFree(t)

SpecUnreadable == InitUnreadable /\ [][NextUnreadable]_vars

\* nih_dir_walk called on its own: the visitor calls are recorded in calls.
\* The visitor fails for none of the paths, or for one that exists.
VisitorFails(f) == {{}} \cup {{PathOf(f, i)} : i \in {j \in Inodes : Exists(f, j)}}
WalkTypes == {S_IFDIR, S_IFREG, S_IFMT}

DirWalk(path, types, vfail) ==
    LET r == nih_dir_walk(fs, path, types, filt, vfail)
    IN  /\ Commit([Cur EXCEPT !.calls = [k \in 1 .. Len(r.visited) |-> Call("visitor", 0, r.visited[k])],
                              !.ret = r.ret],
                  "walk", [path |-> path, types |-> types, vfail |-> vfail])
        /\ UNCHANGED <<fs, filt, nops>>

NextWalk ==
    \E path \in RootPaths, types \in WalkTypes, vfail \in VisitorFails(fs) : DirWalk(path, types, vfail)

SpecWalk == Init /\ [][NextWalk]_vars

\* The registry used directly: the caller's own watches, no tree watch.
NextRegistry ==
    \/ \E i \in Inodes : FsModify(i)
    \/ \E i \in Inodes : FsRemove(i)
    \/ \E path \in WatchPaths, ok \in InitOk :
          \E bad \in BadSets(fs, path) : FileAddWatch(path, ok, bad)
    \/ \E h \in Handles : FileRemoveWatch(h)
    \/ \E h \in Handles : FileFree(h)
    \/ Reader({})

\* A directory that holds a subdirectory and a regular file.
InitRegistry ==
    /\ fs = [i \in Inodes |->
               IF i = 1 THEN [parent |-> Top, name |-> "a", mode |-> S_IFDIR \cup S_IRUSR]
               ELSE IF i = 2 THEN [parent |-> 1, name |-> "a", mode |-> S_IFDIR \cup S_IRUSR]
               ELSE IF i = 3 THEN [parent |-> 1, name |-> "b", mode |-> S_IFREG \cup S_IRUSR]
               ELSE NoInode]
    /\ filt = {}
    /\ Fresh

SpecRegistry == InitRegistry /\ [][NextRegistry]_vars

\* The registry with the reader called on the bytes of the channel: watches on
\* the directory and on the regular file in it.
ReaderPaths == {<<"a">>, <<"a", "b">>}

NextReader ==
    \/ \E i \in Inodes : FsModify(i)
    \/ \E i \in Inodes : FsRemove(i)
    \/ \E path \in ReaderPaths : FileAddWatch(path, TRUE, {})
    \/ \E h \in Handles : FileRemoveWatch(h)
    \/ \E len \in PassLens(queue) : ReaderPass(len)

SpecReader == InitRegistry /\ [][NextReader]_vars

(***************************************************************************)
(* The registry used directly (SpecRegistry).                              *)
(***************************************************************************)
Registered(w, h) == w[h].alloc /\ w[h].wd >= 0

\* The registered handles that hold descriptor wd.
Holders(w, wd) == {h \in Handles : Registered(w, h) /\ w[h].wd = wd}

ReaderStep == last'.op = "reader" /\ queue # <<>> /\ queue' # queue

\* C1: for an event on descriptor D the reader calls the watcher of exactly one
\* handle, the earliest registered of the registered handles that hold D (the
\* one with the least handle number), and of no handle when none holds D.
C1_FirstRegisteredMatch ==
    [][ReaderStep =>
         LET holders == Holders(watch, Head(queue).wd)
         IN  last'.disp = IF holders = {} THEN <<>> ELSE <<Min(holders)>>]_vars

\* An event was dispatched to one of two registered handles that share its
\* descriptor.
C1_Witness ==
    /\ last.op = "reader"
    /\ Len(last.disp) = 1
    /\ Cardinality(Holders(watch, last.arg.ev.wd)) >= 2

\* C2: releasing a handle whose descriptor is already invalid, by
\* nih_file_remove_watch or by the destructor when the handle or its owner is
\* freed, leaves the list, the descriptor and the kernel's watches and queue as
\* they were and calls inotify_rm_watch no more.
C2_ReleaseIdempotent ==
    [][(last'.op \in {"file_remove_watch", "file_free"} /\ watch[last'.arg.h].wd < 0) =>
         /\ file_watches' = file_watches
         /\ watch'[last'.arg.h].wd = -1
         /\ kw' = kw
         /\ queue' = queue
         /\ last'.rm = <<>>
         /\ (last'.op = "file_remove_watch" => watch' = watch)]_vars

\* A released handle was released a second time.
C2_Witness ==
    /\ last.op = "file_remove_watch"
    /\ last.rm = <<>>
    /\ watch[last.arg.h].alloc
    /\ watch[last.arg.h].wd = -1

(***************************************************************************)
(* The directory tree watcher (Spec).                                      *)
(***************************************************************************)
\* The watches allocated as children of tree watch t, and the registered ones.
Owned(w, t) == {h \in Handles : w[h].alloc /\ w[h].parent = t}
OwnedLive(w, t) == {h \in Owned(w, t) : w[h].wd >= 0}

\* The reader hands the next event to watch h, which tree watch t owns.
TreeDispatch(h, t) ==
    ReaderStep /\ last'.disp = <<h>> /\ watch[h].parent = t /\ dirw[t].alloc

Invalidation(ev) == (ev.mask \cap {"IN_IGNORED", "IN_MOVE_SELF"}) # {}

\* The path an event names: the source watch's path, "/", the name.
FullPath(h, ev) == Append(watch[h].path, ev.name)

\* The directories below the directory named by path that a walk under filter
\* flt reaches: neither they nor a directory between is rejected.
Reachable(f, flt, path) ==
    {PathOf(f, i) : i \in {j \in Inodes :
        /\ Resolve(f, path) # -1
        /\ Below(f, j, Resolve(f, path))
        /\ S_ISDIR(f[j].mode)
        /\ \A k \in Inodes :
             (k = j \/ (Below(f, j, k) /\ Below(f, k, Resolve(f, path)))) => f[k].name \notin flt}}

\* The directories below path that the filter does not itself reject.
Unfiltered(f, flt, path) ==
    {PathOf(f, i) : i \in {j \in Inodes :
        /\ Resolve(f, path) # -1
        /\ Below(f, j, Resolve(f, path))
        /\ S_ISDIR(f[j].mode)
        /\ f[j].name \notin flt}}

\* C3: after nih_dir_add_watch with subdirs set has returned a tree watch, no
\* registration having failed, the watches the tree owns are one for the root
\* and one for each sub-directory the filter lets the walk reach, and none else.
C3_ConstructedSet ==
    (last.op = "dir_add_watch" /\ last.ret # 0 /\ last.arg.subdirs /\ last.fails = 0) =>
        LET t == last.ret
            want == {dirw[t].path} \cup Reachable(fs, dirw[t].filter, dirw[t].path)
        IN  /\ {watch[h].path : h \in OwnedLive(watch, t)} = want
            /\ Cardinality(OwnedLive(watch, t)) = Cardinality(want)
            /\ Owned(watch, t) = OwnedLive(watch, t)

\* C4: an IN_IGNORED or IN_MOVE_SELF event for the root watch of a live tree
\* watch calls the delete handler once, with a NULL path, and leaves the tree
\* freed with every watch it owned released and off the list; the handler is
\* called with NULL for a live tree only, which that call ends.
C4_RootGone ==
    [][/\ \A t \in Trees, h \in Handles :
             (TreeDispatch(h, t) /\ Invalidation(Head(queue)) /\ watch[h].path = dirw[t].path) =>
                 /\ last'.calls = <<Call("delete", t, NULL)>>
                 /\ ~dirw'[t].alloc
                 /\ Owned(watch', t) = {}
                 /\ \A x \in Owned(watch, t) : x \notin Range(file_watches') /\ watch'[x].wd < 0
                 /\ \A x \in OwnedLive(watch, t) : kw'[watch[x].wd] = -1
       /\ \A t \in Trees :
             (ReaderStep /\ Call("delete", t, NULL) \in Range(last'.calls)) =>
                 dirw[t].alloc /\ ~dirw'[t].alloc]_vars

\* The root of a tree that owned several registered watches went away.
C4_Witness ==
    /\ last.op = "reader"
    /\ last.calls = <<Call("delete", 1, NULL)>>
    /\ Len(last.rm) >= 2
    /\ ~dirw[1].alloc

\* C5: an IN_DELETE or IN_MOVED_FROM event for an unfiltered path calls the
\* delete handler once with that path and leaves the watches as they are; the
\* invalidation of a sub-directory's watch calls no handler and tears that
\* watch down, and when the kernel has dropped the descriptor (IN_IGNORED) no
\* registered watch is left holding it.
C5_SubdirRemoved ==
    [][\A t \in Trees, h \in Handles : TreeDispatch(h, t) =>
         LET ev == Head(queue)
         IN  /\ (~Invalidation(ev) /\ (ev.mask \cap {"IN_DELETE", "IN_MOVED_FROM"}) # {}
                   /\ ~Filter(dirw[t].filter, FullPath(h, ev))) =>
                     /\ last'.calls = <<Call("delete", t, FullPath(h, ev))>>
                     /\ watch' = watch /\ file_watches' = file_watches
             /\ (Invalidation(ev) /\ watch[h].path # dirw[t].path) =>
                     /\ last'.calls = <<>>
                     /\ ~watch'[h].alloc /\ h \notin Range(file_watches')
                     /\ ("IN_IGNORED" \in ev.mask => Holders(watch', ev.wd) = {})]_vars

\* What a created or moved-in event for an unfiltered path does.
CreateStep(h, t) ==
    /\ TreeDispatch(h, t)
    /\ ~Invalidation(Head(queue))
    /\ (Head(queue).mask \cap {"IN_CREATE", "IN_MOVED_TO"}) # {}
    /\ ~Filter(dirw[t].filter, FullPath(h, Head(queue)))

NewWatches == {x \in Handles : watch'[x].alloc /\ ~watch[x].alloc}

C7_SubdirInvalidated ==
    [][\A t \in Trees, h \in Handles :
         (TreeDispatch(h, t) /\ Invalidation(Head(queue)) /\ watch[h].path # dirw[t].path) =>
             LET others == Holders(watch, watch[h].wd) \ {h}
             IN  /\ ~watch'[h].alloc /\ h \notin Range(file_watches')
                 /\ dirw' = dirw
                 /\ last'.calls = <<>>
                 /\ others # {} =>
                      /\ last'.rm = <<>> /\ kw' = kw
                      /\ \A o \in others : watch'[o] = watch[o] /\ o \in Range(file_watches')
                 /\ others = {} =>
                      /\ last'.rm = <<watch[h].wd>>
                      /\ kw'[watch[h].wd] = -1]_vars

\* A sub-directory's watch was dropped while another watch held its descriptor,
\* which the kernel still watches.
C7_Witness ==
    /\ last.op = "reader"
    /\ Invalidation(last.arg.ev)
    /\ Len(last.disp) = 1 /\ ~watch[last.disp[1]].alloc
    /\ last.rm = <<>> /\ last.calls = <<>>
    /\ dirw[1].alloc
    /\ Holders(watch, last.arg.ev.wd) # {}
    /\ kw[last.arg.ev.wd] # -1

\* Nothing has left the tree: the root path names a directory, and every inode
\* the kernel watches is that directory or lies below it.
AllInside(t) ==
    /\ S_ISDIR(stat(fs, dirw[t].path))
    /\ \A w \in Wds : kw[w] # -1 =>
          kw[w] = Resolve(fs, dirw[t].path) \/ Below(fs, kw[w], Resolve(fs, dirw[t].path))

\* C8: once every event has been read and nothing has left the tree, each
\* registered watch of a tree watched with its sub-directories is recorded under the current path of the directory
\* its descriptor watches, and no two of them share a descriptor.
C8_EventuallyConsistent ==
    \A t \in Trees : (dirw[t].alloc /\ dirw[t].subdirs /\ queue = <<>> /\ AllInside(t)) =>
        /\ \A h \in OwnedLive(watch, t) :
             kw[watch[h].wd] # -1 /\ kw[watch[h].wd] = Resolve(fs, watch[h].path)
        /\ \A h1, h2 \in OwnedLive(watch, t) : h1 # h2 => watch[h1].wd # watch[h2].wd

\* C9: an event other than an invalidation whose full path the filter rejects
\* calls no handler and installs no watch: list, watches, tree watch and kernel
\* watches stay as they are.
C9_FilteredEventIgnored ==
    [][\A t \in Trees, h \in Handles :
         (TreeDispatch(h, t) /\ ~Invalidation(Head(queue))
             /\ Filter(dirw[t].filter, FullPath(h, Head(queue)))) =>
                 /\ last'.calls = <<>>
                 /\ watch' = watch /\ file_watches' = file_watches
                 /\ dirw' = dirw /\ kw' = kw /\ nalloc' = nalloc]_vars

\* A filtered directory was created in a tree watched with its sub-directories.
C9_Witness ==
    /\ last.op = "reader"
    /\ Len(last.disp) = 1 /\ last.calls = <<>>
    /\ {"IN_CREATE", "IN_ISDIR"} \subseteq last.arg.ev.mask
    /\ last.arg.ev.name \in filt
    /\ dirw[1].alloc /\ dirw[1].subdirs
    /\ watch[last.disp[1]].parent = 1
    /\ S_ISDIR(stat(fs, Append(watch[last.disp[1]].path, last.arg.ev.name)))

(***************************************************************************)
(* The directory walk (SpecWalk).                                          *)
(***************************************************************************)
\* The paths of the objects below the directory named by path.
Descendants(f, path) ==
    {PathOf(f, i) : i \in {j \in Inodes : Resolve(f, path) # -1 /\ Below(f, j, Resolve(f, path))}}

\* Those the filter does not itself reject.
OwnPathPasses(f, flt, path) == {p \in Descendants(f, path) : ~Filter(flt, p)}

\* Those for which the filter rejects neither them nor a directory between
\* them and path.
ChainPasses(f, flt, path) ==
    {p \in Descendants(f, path) :
        \A k \in Len(path) + 1 .. Len(p) : ~Filter(flt, SubSeq(p, 1, k))}

Visited == {last.calls[k].path : k \in 1 .. Len(last.calls)}

\* C10 as stated: the walk visits the objects below the directory whose own
\* path the filter does not reject, and so enters a directory the filter
\* rejects to visit what is inside it.
C10_FilteredStillEntered ==
    (last.op = "walk" /\ last.ret = 0 /\ last.arg.types = S_IFMT) =>
        Visited = OwnPathPasses(fs, filt, last.arg.path)

\* C10 as amended: the walk visits no object that the filter rejects or that
\* lies below a directory the filter rejects; when it is asked for every type
\* and completes, it visits exactly the others, each once.
C10_FilteredNotEntered ==
    last.op = "walk" =>
        /\ Visited \subseteq ChainPasses(fs, filt, last.arg.path)
        /\ (last.ret = 0 /\ last.arg.types = S_IFMT) =>
              /\ Visited = ChainPasses(fs, filt, last.arg.path)
              /\ Len(last.calls) = Cardinality(Visited)

\* A completed walk met a directory the filter rejects that holds an object
\* the filter does not reject.
C10_Witness ==
    /\ last.op = "walk" /\ last.ret = 0 /\ last.arg.types = S_IFMT
    /\ \E p \in OwnPathPasses(fs, filt, last.arg.path) :
          p \notin ChainPasses(fs, filt, last.arg.path)

(***************************************************************************)
(* The reader and the bytes of the channel (SpecReader).                   *)
(***************************************************************************)
\* The number of leading records of q that len bytes hold in full.
RECURSIVE Whole(_, _)
Whole(q, len) ==
    IF q = <<>> \/ len < RecordSize(Head(q)) THEN 0
    ELSE 1 + Whole(Tail(q), len - RecordSize(Head(q)))

\* The watcher calls that the events of q make, one for each event whose
\* descriptor a registered watch holds, to the first such watch of the list.
RECURSIVE Deliveries(_)
Deliveries(q) ==
    IF q = <<>> THEN <<>>
    ELSE LET on == {k \in 1 .. Len(file_watches) : watch[file_watches[k]].wd = Head(q).wd}
         IN  (IF on = {} THEN <<>>
              ELSE <<Call("watcher", file_watches[Min(on)], <<Head(q).name>>)>>)
             \o Deliveries(Tail(q))

\* C11: a pass of the reader over len buffered bytes takes the records that
\* are there in full, in order, and no more: it delivers each of them as
\* queued, leaves the others queued, and leaves in the buffer the bytes of the
\* record that is not all there.
C11_WholeRecordsOnly ==
    [][last'.op = "reader_pass" =>
         LET len == last'.arg.len
             k == Whole(queue, len)
         IN  /\ queue' = SubSeq(queue, k + 1, Len(queue))
             /\ last'.calls = Deliveries(SubSeq(queue, 1, k))
             /\ last'.ret = len - Bytes(SubSeq(queue, 1, k))
             /\ watch' = watch /\ file_watches' = file_watches]_vars

\* A pass delivered a record and stopped at one whose header was buffered and
\* whose name was not.
C11_Witness ==
    /\ last.op = "reader_pass"
    /\ last.calls # <<>>
    /\ last.ret >= HeaderSize
    /\ queue # <<>> /\ Head(queue).name # ""

\* C12: a call of nih_file_add_watch in which the kernel refuses the path
\* returns NULL and leaves the list, every watch on it, the kernel's watches
\* and the queued events as they were, and calls inotify_rm_watch for nothing;
\* so does every call that returns NULL.
C12_FailedAddLeavesRegistry ==
    [][(last'.op = "file_add_watch" /\ (last'.fails > 0 \/ last'.ret = 0)) =>
         /\ last'.ret = 0
         /\ file_watches' = file_watches
         /\ watch' = watch
         /\ kw' = kw
         /\ queue' = queue
         /\ last'.rm = <<>>]_vars

\* The kernel refused a registration while other watches were registered.
C12_Witness ==
    /\ last.op = "file_add_watch" /\ last.ret = 0 /\ last.fails = 1
    /\ Len(file_watches) >= 2
    /\ \E h \in Range(file_watches) : kw[watch[h].wd] # -1

\* C13: nih_file_add_watch calls inotify_init exactly when inotify_fd is -1;
\* when that call fails the registration returns NULL, adds nothing and leaves
\* inotify_fd at -1 for the next call to try again; and a descriptor once
\* obtained is kept by every operation.
C13_ChannelOnce ==
    [][/\ last'.op = "file_add_watch" =>
            /\ last'.inits = (IF inotify_fd = -1 THEN 1 ELSE 0)
            /\ (inotify_fd = -1 /\ inotify_fd' = -1) =>
                  (last'.ret = 0 /\ file_watches' = file_watches /\ watch' = watch)
       /\ inotify_fd # -1 => inotify_fd' = inotify_fd
       /\ inotify_fd' \in {-1, ChannelFd}]_vars

\* A registration found the channel there, did not create it again, and
\* registered a second watch.
C13_Witness ==
    /\ last.op = "file_add_watch" /\ last.inits = 0 /\ last.ret # 0
    /\ inotify_fd = ChannelFd
    /\ Len(file_watches) >= 2

\* C14: the list holds each of its entries once, and a watch is on the list
\* exactly when it is allocated and its descriptor is not negative: a watch
\* that was released, freed or refused is not on it.
C14_ListIsRegistered ==
    /\ \A h \in Handles : h \in Range(file_watches) <=> (watch[h].alloc /\ watch[h].wd >= 0)
    /\ \A j, k \in 1 .. Len(file_watches) : j # k => file_watches[j] # file_watches[k]
    /\ \A h \in Handles : ~watch[h].alloc => watch[h] = NoWatch

\* The reader released a watch of a tree that still has watches on the list.
C14_Witness ==
    /\ last.op = "reader" /\ last.rm # <<>>
    /\ file_watches # <<>>
    /\ \E h \in 1 .. nalloc : ~watch[h].alloc

\* C15: when inotify_add_watch refuses a sub-directory, not the root, while
\* nih_dir_add_watch populates a tree, the tree watch is returned with a watch
\* for the root and for every sub-directory the walk reaches that was not
\* refused; when it refuses one while a created directory is discovered, the
\* create handler is called, the tree stays, the watches it owned stay as they
\* were and on the list, and every directory reached and not refused gets one.
C15_RefusalIsSoft ==
    [][/\ (/\ last'.op = "dir_add_watch" /\ last'.arg.subdirs
            /\ last'.refused # <<>> /\ last'.arg.path \notin Range(last'.refused)) =>
              LET t == last'.ret
                  path == last'.arg.path
              IN  /\ t # 0 /\ dirw'[t].alloc
                  /\ (({path} \cup Reachable(fs, filt, path)) \ Range(last'.refused))
                        \subseteq {watch'[x].path : x \in OwnedLive(watch', t)}
                  /\ Owned(watch', t) \subseteq Range(file_watches')
       /\ \A t \in Trees, h \in Handles : (CreateStep(h, t) /\ last'.refused # <<>>) =>
              LET path == FullPath(h, Head(queue))
              IN  /\ last'.calls = <<Call("create", t, path)>>
                  /\ dirw'[t] = dirw[t]
                  /\ \A x \in Owned(watch, t) : watch'[x] = watch[x]
                  /\ SubSeq(file_watches', 1, Len(file_watches)) = file_watches
                  /\ (({path} \cup Reachable(fs, dirw[t].filter, path)) \ Range(last'.refused))
                        \subseteq {watch'[x].path : x \in NewWatches}]_vars

\* C20: nih_dir_add_watch with subdirs set returns NULL only when the root is
\* not a directory that can be read, when there is no channel or when the
\* root's registration is refused; otherwise it returns a tree watch that owns
\* a registered watch for the root, whatever the walk met.
C20_WalkErrorOnlyWarns ==
    (/\ last.op = "dir_add_watch" /\ last.arg.subdirs
     /\ opendir(fs, last.arg.path)
     /\ inotify_fd # -1
     /\ last.arg.path \notin Range(last.refused)) =>
        /\ last.ret # 0
        /\ dirw[last.ret].alloc
        /\ \E h \in OwnedLive(watch, last.ret) : watch[h].path = last.arg.path

\* C16: a walk for every type, without a filter, that completes has called
\* the visitor once for each object below the directory, at any depth, and for
\* nothing else: not for the directory itself, not for a . or .. entry.
C16_VisitsEachDescendantOnce ==
    (last.op = "walk" /\ last.ret = 0 /\ last.arg.types = S_IFMT /\ filt = {}) =>
        /\ Visited = Descendants(fs, last.arg.path)
        /\ Len(last.calls) = Cardinality(Visited)
        /\ last.arg.path \notin Visited
        /\ \A p \in Visited : p[Len(p)] \notin {".", ".."}

\* A walk visited objects at two depths.
C16_Witness ==
    /\ last.op = "walk" /\ last.ret = 0 /\ last.arg.types = S_IFMT /\ filt = {}
    /\ \E p, q \in Visited : Len(p) = 2 /\ Len(q) = 3

\* The file types a mask names: every one for S_IFMT, else the one given.
Named(types) == IF types = S_IFMT THEN {S_IFIFO, S_IFCHR, S_IFDIR, S_IFBLK, S_IFREG, S_IFSOCK}
                ELSE {types}

\* C17: a walk that completes has called the visitor for exactly the objects
\* it reaches whose file type is one that types names; with S_IFDIR, for
\* directories and nothing else.
C17_TypeMask ==
    (last.op = "walk" /\ last.ret = 0) =>
        Visited = {p \in ChainPasses(fs, filt, last.arg.path) :
                      (stat(fs, p) \cap S_IFMT) \in Named(last.arg.types)}

\* C18: a step never calls inotify_rm_watch for a descriptor that a watch
\* still on the list holds once the step is done: every watch left on the
\* list keeps the kernel watch it had.
C18_NoRemovalWhileHeld ==
    [][/\ \A k \in 1 .. Len(last'.rm) : Holders(watch', last'.rm[k]) = {}
       /\ last'.rm # <<>> =>
             \A h \in Range(file_watches') :
                (h \in Range(file_watches) /\ kw[watch[h].wd] # -1) => kw'[watch'[h].wd] # -1]_vars

(***************************************************************************)
(* The reader's pass over the tree watcher's events (SpecPass).            *)
(***************************************************************************)
\* The first n queued events handled one after the other, each against the
\* list and the watches as the one before left them.
RECURSIVE Replay(_, _, _)
Replay(m, f, n) ==
    IF n = 0 THEN m
    ELSE Replay(nih_file_reader([m EXCEPT !.queue = Tail(@)], f, Head(m.queue), {}), f, n - 1)

\* C19: in a pass of the reader whose watchers add and free watches, each
\* event goes to one watcher at most, and to none of a watch that has been
\* freed; a watch is off the list only when it has been freed, those that stay
\* keep their order and the new ones follow them; and the pass leaves what
\* handling its events one at a time, each against the list as the one before
\* left it, leaves.
C19_MutationInCallback ==
    [][last'.op = "reader_pass" =>
         LET k == Whole(queue, last'.arg.len)
             r == Replay(Cur, fs, k)
             kept == SelectSeq(file_watches, LAMBDA h : watch'[h].alloc)
         IN  /\ Len(last'.disp) <= k
             /\ \A j \in 1 .. Len(last'.calls) : last'.calls[j].fn # "watcher"
             /\ SubSeq(file_watches', 1, Len(kept)) = kept
             /\ \A j \in Len(kept) + 1 .. Len(file_watches') :
                   file_watches'[j] \notin Range(file_watches)
             /\ watch' = r.watch /\ file_watches' = r.list /\ dirw' = r.dirw
             /\ last'.calls = r.calls /\ last'.disp = r.disp /\ queue' = r.queue]_vars

\* One pass handled an event that added watches and then an event that freed
\* one.
C19_Witness ==
    /\ last.op = "reader_pass"
    /\ Len(last.disp) >= 2
    /\ \E j \in 1 .. Len(last.calls) : last.calls[j].fn = "create"
    /\ \E h \in 1 .. nalloc : ~watch[h].alloc
    /\ dirw[1].alloc

(***************************************************************************)
(* A tree watch after it has been freed (SpecTeardown).                    *)
(***************************************************************************)
\* Tree watch t was returned to the caller and has been freed since.
Destroyed(t) == t <= ntrees /\ ~dirw[t].alloc

HandlerCall(c, t) == c.fn \in {"create", "modify", "delete"} /\ c.who = t

\* C21: a tree watch that has been freed, by the watcher on its top-level
\* directory going away or moving or by the caller, stays freed and none of its
\* handlers is called in any later step; in the pass that frees it no handler
\* is called after the delete handler's call with NULL; and once it is freed
\* no watch of it is left, on the list or off it, and the list holds live
\* watches only, so no later event can reach it.
C21_DestroyedIsSilent ==
    [][\A t \in Trees :
          /\ Destroyed(t) =>
                /\ dirw'[t] = NoDir
                /\ \A j \in 1 .. Len(last'.calls) : ~HandlerCall(last'.calls[j], t)
          /\ Destroyed(t)' =>
                /\ \A h \in DOMAIN watch' : watch'[h].parent # t
                /\ \A h \in Range(file_watches') : watch'[h].alloc
                /\ \A j, k \in 1 .. Len(last'.calls) :
                      (j < k /\ last'.calls[j] = Call("delete", t, NULL))
                          => ~HandlerCall(last'.calls[k], t)]_vars

\* A pass of the reader took at least one event of a tree watch freed before
\* it and called nothing.
C21_Witness ==
    /\ last.op = "reader_pass"
    /\ last.arg.len - last.ret >= HeaderSize
    /\ last.calls = <<>>
    /\ last.disp = <<>>
    /\ Destroyed(1)

====
